---- MODULE Spec2Model ----
(***************************************************************************)
(* A model of the optics core of python-lenses (lenses/optics/base.py):    *)
(* the kind lattice, the concrete optics, ComposedLens and the public      *)
(* operations view, to_list_of, over, set, compose, from_, re and kind.    *)
(*                                                                         *)
(* A client holds one optic, acc, which starts as the identity optic and   *)
(* is extended by composition with leaf optics on either side, flipped     *)
(* (from_) or reviewed (re); it evaluates acc on states.  `last` records   *)
(* the last call: its receiver, its arguments and its outcome (the value   *)
(* returned or the exception raised, and the user supplied functions the   *)
(* call invoked, in order).                                                *)
(*                                                                         *)
(* Under SpecWrapper the client holds a user-facing wrapper instead        *)
(* (lenses/ui.py Lens or lenses/userlens.py UserLens): acc starts as an    *)
(* unbound wrapper over the identity optic and is extended by add_lens,    *)
(* bound to a state by bind, and read or written by its terminal methods.  *)
(***************************************************************************)
EXTENDS Integers, Sequences, FiniteSets, TLC

\* States and foci are the integers 0..MaxVal.
MaxVal == 3
\* The longest element list a composition built by the client may have.
MaxLen == 2

Val == 0..MaxVal
NVal == MaxVal + 1

(***************************************************************************)
(* User supplied functions, as tables over Val.  A setter takes the pair   *)
(* <<old state, new focus>>.  An unpack function returns a Maybe: Just(a)  *)
(* is <<a>> and Nothing is <<>>.                                           *)
(***************************************************************************)
Ident == [v \in Val |-> v]
Inc == [v \in Val |-> (v + 1) % NVal]
Dec == [v \in Val |-> (v + MaxVal) % NVal]
Neg == [v \in Val |-> (NVal - v) % NVal]
Half == [v \in Val |-> v \div 2]
Zero == [v \in Val |-> 0]
Twice == [v \in Val |-> (2 * v) % NVal]
LowGet == [v \in Val |-> v % 2]
LowPut == [p \in Val \X Val |->
             LET r == (p[1] - (p[1] % 2)) + (p[2] % 2)
             IN  IF r <= MaxVal THEN r ELSE p[1]]
HighPut == [p \in Val \X Val |->
              LET r == 2 * p[2] + (p[1] % 2)
              IN  IF r <= MaxVal THEN r ELSE p[1]]
AddPut == [p \in Val \X Val |-> (p[1] + p[2]) % NVal]
DecPut == [p \in Val \X Val |-> (p[2] + MaxVal) % NVal]
EvenUnpack == [v \in Val |-> IF v % 2 = 0 THEN <<v \div 2>> ELSE <<>>]
PosUnpack == [v \in Val |-> IF v > 0 THEN <<v - 1>> ELSE <<>>]

\* The constant function returning v; its name is the numeral of v.
Constantly(v) == [a \in Val |-> v]
ConstantFn(v) == ToString(v)

\* An optic holds its functions by name; Fn(name) is the function's table.
Fn(name) ==
    CASE name = "Ident" -> Ident
      [] name = "Inc" -> Inc
      [] name = "Dec" -> Dec
      [] name = "Neg" -> Neg
      [] name = "Half" -> Half
      [] name = "Zero" -> Zero
      [] name = "Twice" -> Twice
      [] name = "LowGet" -> LowGet
      [] name = "LowPut" -> LowPut
      [] name = "HighPut" -> HighPut
      [] name = "AddPut" -> AddPut
      [] name = "DecPut" -> DecPut
      [] name = "EvenUnpack" -> EvenUnpack
      [] name = "PosUnpack" -> PosUnpack
      [] OTHER -> Constantly(CHOOSE v \in Val : ToString(v) = name)

\* The functions a client passes to over().
Fns == {"Inc", "Zero"}

(***************************************************************************)
(* Exceptions.  arg is the state an ErrorIso formatted into its message,   *)
(* and -1 when the exception carries no formatted state.                   *)
(***************************************************************************)
Exception(name, msg, arg) == [name |-> name, msg |-> msg, arg |-> arg]
NoErr == Exception("", "", -1)
TypeError(msg) == Exception("TypeError", msg, -1)
ValueError(msg) == Exception("ValueError", msg, -1)
RuntimeError(msg) == Exception("RuntimeError", msg, -1)
NotImplementedError(msg) == Exception("NotImplementedError", msg, -1)
AttributeError(msg) == Exception("AttributeError", msg, -1)
IndexError(msg) == Exception("IndexError", msg, -1)

(***************************************************************************)
(* The optic classes: each constructor is the class's __init__.            *)
(***************************************************************************)
Fold == [type |-> "Fold"]
Setter == [type |-> "Setter"]
Traversal == [type |-> "Traversal"]
Getter(getter) == [type |-> "Getter", getter |-> getter]
Lens(getter, setter) == [type |-> "Lens", getter |-> getter, setter |-> setter]
Review(pack) == [type |-> "Review", pack |-> pack]
Prism(unpack, pack) == [type |-> "Prism", unpack |-> unpack, pack |-> pack]
Isomorphism(forwards, backwards) ==
    [type |-> "Isomorphism", forwards |-> forwards, backwards |-> backwards]
Equality(forwards, backwards) ==
    [type |-> "Equality", forwards |-> forwards, backwards |-> backwards]
ErrorIso(exception, message) ==
    [type |-> "ErrorIso", exception |-> exception, message |-> message]
TrivialIso == [type |-> "TrivialIso"]

\* The direct base classes of each class.
Bases(cls) ==
    CASE cls = "Fold" -> {"LensLike"}
      [] cls = "Setter" -> {"LensLike"}
      [] cls = "Getter" -> {"Fold"}
      [] cls = "Traversal" -> {"Fold", "Setter"}
      [] cls = "Lens" -> {"Getter", "Traversal"}
      [] cls = "Review" -> {"LensLike"}
      [] cls = "Prism" -> {"Traversal", "Review"}
      [] cls = "Isomorphism" -> {"Lens", "Prism"}
      [] cls = "Equality" -> {"Isomorphism"}
      [] cls = "ComposedLens" -> {"LensLike"}
      [] cls = "ErrorIso" -> {"Isomorphism"}
      [] cls = "TrivialIso" -> {"Isomorphism"}
      [] OTHER -> {}

RECURSIVE issubclass(_, _)
issubclass(c, k) == c = k \/ \E b \in Bases(c) : issubclass(b, k)

isinstance(optic, cls) == issubclass(optic.type, cls)

\* _filter_lenses keeping the identity elements.
RECURSIVE _filter_lenses_keep_trivial(_)
_filter_lenses_keep_trivial(lenses) ==
    IF Len(lenses) = 0 THEN <<>>
    ELSE LET lens == Head(lenses)
             rest == _filter_lenses_keep_trivial(Tail(lenses))
         IN  IF lens.type = "ComposedLens" THEN lens.lenses \o rest
             ELSE <<lens>> \o rest

\* _filter_lenses keeping a ComposedLens element as one element.
RECURSIVE _filter_lenses_no_splice(_)
_filter_lenses_no_splice(lenses) ==
    IF Len(lenses) = 0 THEN <<>>
    ELSE LET lens == Head(lenses)
             rest == _filter_lenses_no_splice(Tail(lenses))
         IN  IF lens.type = "TrivialIso" THEN rest
             ELSE <<lens>> \o rest

\* ComposedLens._filter_lenses: identity elements are dropped and the elements
\* of a ComposedLens element are spliced in (one level).
RECURSIVE _filter_lenses(_)
_filter_lenses(lenses) ==
    IF Len(lenses) = 0 THEN <<>>
    ELSE LET lens == Head(lenses)
             rest == _filter_lenses(Tail(lenses))
         IN  IF lens.type = "TrivialIso" THEN rest
             ELSE IF lens.type = "ComposedLens" THEN lens.lenses \o rest
             ELSE <<lens>> \o rest

ComposedLens(lenses) == [type |-> "ComposedLens", lenses |-> _filter_lenses(lenses)]

\* LensLike._is_kind and its override ComposedLens._is_kind.
RECURSIVE _is_kind(_, _)
_is_kind(optic, cls) ==
    IF optic.type = "ComposedLens"
    THEN \A i \in DOMAIN optic.lenses : _is_kind(optic.lenses[i], cls)
    ELSE isinstance(optic, cls)

\* The kinds with Review tested before Prism.
optics_review_first ==
    <<"Equality", "Isomorphism", "Review", "Prism", "Lens", "Traversal",
      "Getter", "Setter", "Fold">>

\* The order in which LensLike.kind tests the kinds.
optics == <<"Equality", "Isomorphism", "Prism", "Review", "Lens", "Traversal",
            "Getter", "Setter", "Fold">>

\* LensLike.kind: the first kind of the list the optic is an instance of, or None.
kind(optic) ==
    LET hits == {i \in DOMAIN optics : _is_kind(optic, optics[i])}
    IN  IF hits = {} THEN "None"
        ELSE optics[CHOOSE i \in hits : \A j \in hits : i <= j]

(***************************************************************************)
(* Functors.  The outcome of evaluating an optic's func is a record: the   *)
(* functor value returned (functor, item), or the exception raised (exc),  *)
(* together with the user supplied functions invoked so far (calls).       *)
(* A Const holds a list or a Maybe, both sequences; an Identity holds a    *)
(* value.                                                                  *)
(***************************************************************************)
Const(item) == [functor |-> "Const", item |-> item, calls |-> <<>>, exc |-> NoErr]
Identity(item) == [functor |-> "Identity", item |-> item, calls |-> <<>>, exc |-> NoErr]
Raise(e) == [functor |-> "raised", item |-> <<>>, calls |-> <<>>, exc |-> e]

\* The outcome r, after the calls `before` were made.
After(before, r) == [r EXCEPT !.calls = before \o @]

\* typeclass.fmap on a functor value: Identity(v) maps to Identity(g(v)), which
\* invokes g (recorded as `name`); Const(v) is returned unchanged.
fmap(fa, g, name) ==
    IF fa.exc # NoErr THEN fa
    ELSE IF fa.functor = "Identity"
    THEN [fa EXCEPT !.item = g[@], !.calls = Append(@, name)]
    ELSE fa

\* typeclass.fmap on a list or a Maybe: g is invoked on every element.
fmap_items(items, g) == [i \in DOMAIN items |-> g[items[i]]]

(***************************************************************************)
(* Functorisors.  The four public operations build one each (pure_func,    *)
(* func); mode names which.  chain holds the optics' func the functorisor  *)
(* was updated with, outermost first: update(fn) yields                    *)
(* Functorisor(pure, lambda state: fn(self, state)).                       *)
(***************************************************************************)
Functorisor(mode, fn, value) ==
    [mode |-> mode, fn |-> fn, value |-> value, chain |-> <<>>]

\* LensLike.view: Functorisor(lambda a: Const(Nothing()), lambda a: Const(Just(a)))
\* LensLike.to_list_of: Functorisor(lambda a: Const([]), lambda a: Const([a]))
\* LensLike.over: Functorisor(lambda a: Identity(a), lambda a: Identity(fn(a)))
\* LensLike.set: Functorisor(lambda a: Identity(a), lambda a: Identity(value))
pure_func(f, a) ==
    CASE f.mode = "view" -> Const(<<>>)
      [] f.mode = "to_list_of" -> Const(<<>>)
      [] f.mode = "over" -> Identity(a)
      [] f.mode = "set" -> Identity(a)

\* base_func with set's function returning the focus it is given.
base_func_set_keeps(f, a) ==
    CASE f.mode = "view" -> Const(<<a>>)
      [] f.mode = "to_list_of" -> Const(<<a>>)
      [] f.mode = "over" -> After(<<"fn">>, Identity(Fn(f.fn)[a]))
      [] f.mode = "set" -> Identity(a)

base_func(f, a) ==
    CASE f.mode = "view" -> Const(<<a>>)
      [] f.mode = "to_list_of" -> Const(<<a>>)
      [] f.mode = "over" -> After(<<"fn">>, Identity(Fn(f.fn)[a]))
      [] f.mode = "set" -> Identity(f.value)

update(f, lens) == [f EXCEPT !.chain = <<lens>> \o @]

RECURSIVE func(_, _, _)
RECURSIVE call(_, _)

\* LensLike.func: not overridden by Fold, Setter, Traversal and Review.
LensLike_func(self, f, state) ==
    Raise(NotImplementedError("Tried to use unimplemented lens {}."))

\* Getter.func: Const(typeclass.fmap(f(state).unwrap(), self.getter))
Getter_func(self, f, state) ==
    LET fs == call(f, state)
    IN  IF fs.exc # NoErr THEN fs
        ELSE IF fs.functor = "Const"
        THEN After(fs.calls \o [i \in DOMAIN fs.item |-> "getter"],
                   Const(fmap_items(fs.item, Fn(self.getter))))
        ELSE After(fs.calls, Raise(AttributeError("fmap")))

\* Lens.func rebuilding from the old focus instead of the state.
Lens_func_put_old(self, f, state) ==
    LET old_value == Fn(self.getter)[state]
        fa == call(f, old_value)
    IN  After(<<"getter">>,
              fmap(fa, [a \in Val |-> Fn(self.setter)[<<old_value, a>>]], "setter"))

\* Lens.func leaving the state as it was.
Lens_func_keep_state(self, f, state) ==
    LET old_value == Fn(self.getter)[state]
        fa == call(f, old_value)
    IN  After(<<"getter">>, fmap(fa, [a \in Val |-> state], "setter"))

\* Lens.func
Lens_func(self, f, state) ==
    LET old_value == Fn(self.getter)[state]
        fa == call(f, old_value)
    IN  After(<<"getter">>,
              fmap(fa, [a \in Val |-> Fn(self.setter)[<<state, a>>]], "setter"))

\* Prism.func applying f to the state when unpack fails, instead of f.pure.
Prism_func_no_pure(self, f, state) ==
    LET result == Fn(self.unpack)[state]
    IN  IF Len(result) = 0
        THEN After(<<"unpack">>, call(f, state))
        ELSE After(<<"unpack">>, fmap(call(f, result[1]), Fn(self.pack), "pack"))

\* Prism.func
Prism_func(self, f, state) ==
    LET result == Fn(self.unpack)[state]
    IN  IF Len(result) = 0
        THEN After(<<"unpack">>, pure_func(f, state))
        ELSE After(<<"unpack">>, fmap(call(f, result[1]), Fn(self.pack), "pack"))

\* The forwards and backwards of an Isomorphism; TrivialIso defines them as
\* methods that return their argument (named Ident here).
forwards(self) == IF self.type = "TrivialIso" THEN "Ident" ELSE self.forwards
backwards(self) == IF self.type = "TrivialIso" THEN "Ident" ELSE self.backwards

\* Isomorphism.func, inherited by Equality and TrivialIso.
Isomorphism_func(self, f, state) ==
    After(<<"forwards">>,
          fmap(call(f, Fn(forwards(self))[state]), Fn(backwards(self)), "backwards"))

\* ErrorIso.func
ErrorIso_func(self, f, state) ==
    IF self.message = "None"
    THEN Raise(Exception(self.exception, "", -1))
    ELSE Raise(Exception(self.exception, self.message, state))

\* ComposedLens.func: res = f, updated with each element's func in reverse
\* order, then called on the state.
RECURSIVE update_reversed(_, _)
update_reversed(f, lenses) ==
    IF Len(lenses) = 0 THEN f
    ELSE update_reversed(update(f, lenses[Len(lenses)]),
                         SubSeq(lenses, 1, Len(lenses) - 1))

ComposedLens_func(self, f, state) ==
    IF Len(self.lenses) = 0
    THEN Isomorphism_func(TrivialIso, f, state)
    ELSE call(update_reversed(f, self.lenses), state)

\* Method dispatch on the optic's class.
func(self, f, state) ==
    CASE self.type = "Getter" -> Getter_func(self, f, state)
      [] self.type = "Lens" -> Lens_func(self, f, state)
      [] self.type = "Prism" -> Prism_func(self, f, state)
      [] self.type \in {"Isomorphism", "Equality", "TrivialIso"} ->
             Isomorphism_func(self, f, state)
      [] self.type = "ErrorIso" -> ErrorIso_func(self, f, state)
      [] self.type = "ComposedLens" -> ComposedLens_func(self, f, state)
      [] OTHER -> LensLike_func(self, f, state)

\* Functorisor.__call__: the function the functorisor wraps, which after
\* update(fn) is lambda state: fn(previous, state).
call(f, a) ==
    IF Len(f.chain) = 0 THEN base_func(f, a)
    ELSE func(Head(f.chain), [f EXCEPT !.chain = Tail(@)], a)

(***************************************************************************)
(* The public operations.  Each returns a record: err is the exception     *)
(* raised (NoErr if none), val the value returned, calls the user          *)
(* functions invoked.                                                      *)
(***************************************************************************)
Return(val, calls) == [err |-> NoErr, val |-> val, calls |-> calls]
Raised(e, calls) == [err |-> e, val |-> <<>>, calls |-> calls]

\* LensLike.view returning the state when there is no focus.
view_unguarded(self, state) ==
    IF ~_is_kind(self, "Fold")
    THEN Raised(TypeError("Must be an instance of Fold to .view()"), <<>>)
    ELSE LET r == func(self, Functorisor("view", "Ident", 0), state)
         IN  IF r.exc # NoErr THEN Raised(r.exc, r.calls)
             ELSE IF Len(r.item) = 0 THEN Return(state, r.calls)
             ELSE Return(r.item[1], r.calls)

\* LensLike.view
view(self, state) ==
    IF ~_is_kind(self, "Fold")
    THEN Raised(TypeError("Must be an instance of Fold to .view()"), <<>>)
    ELSE LET r == func(self, Functorisor("view", "Ident", 0), state)
         IN  IF r.exc # NoErr THEN Raised(r.exc, r.calls)
             ELSE IF Len(r.item) = 0
             THEN Raised(ValueError("No focus to view"), r.calls)
             ELSE Return(r.item[1], r.calls)

\* LensLike.to_list_of
to_list_of(self, state) ==
    IF ~_is_kind(self, "Fold")
    THEN Raised(TypeError("Must be an instance of Fold to .to_list_of()"), <<>>)
    ELSE LET r == func(self, Functorisor("to_list_of", "Ident", 0), state)
         IN  IF r.exc # NoErr THEN Raised(r.exc, r.calls)
             ELSE Return(r.item, r.calls)

\* LensLike.over
over(self, state, fn) ==
    IF ~_is_kind(self, "Setter")
    THEN Raised(TypeError("Must be an instance of Setter to .over()"), <<>>)
    ELSE LET r == func(self, Functorisor("over", fn, 0), state)
         IN  IF r.exc # NoErr THEN Raised(r.exc, r.calls)
             ELSE Return(r.item, r.calls)

\* LensLike.set
set(self, state, value) ==
    IF ~_is_kind(self, "Setter")
    THEN Raised(TypeError("Must be an instance of Setter to .set()"), <<>>)
    ELSE LET r == func(self, Functorisor("set", "Ident", value), state)
         IN  IF r.exc # NoErr THEN Raised(r.exc, r.calls)
             ELSE Return(r.item, r.calls)

\* ComposedLens.compose without its test of the result's kind.
ComposedLens_compose_unchecked(self, other) ==
    LET result == ComposedLens(self.lenses \o <<other>>)
    IN  IF Len(result.lenses) = 0 THEN Return(TrivialIso, <<>>)
        ELSE IF Len(result.lenses) = 1 THEN Return(result.lenses[1], <<>>)
        ELSE Return(result, <<>>)

\* ComposedLens.compose returning the composition however few elements it has.
ComposedLens_compose_no_collapse(self, other) ==
    LET result == ComposedLens(self.lenses \o <<other>>)
    IN  IF kind(result) = "None"
        THEN Raised(RuntimeError("Optic has no valid type"), <<>>)
        ELSE Return(result, <<>>)

\* ComposedLens.compose
ComposedLens_compose(self, other) ==
    LET result == ComposedLens(self.lenses \o <<other>>)
    IN  IF Len(result.lenses) = 0 THEN Return(TrivialIso, <<>>)
        ELSE IF Len(result.lenses) = 1 THEN Return(result.lenses[1], <<>>)
        ELSE IF kind(result) = "None"
        THEN Raised(RuntimeError("Optic has no valid type"), <<>>)
        ELSE Return(result, <<>>)

\* LensLike.compose
LensLike_compose(self, other) ==
    ComposedLens_compose(ComposedLens(<<self>>), other)

compose(self, other) ==
    IF self.type = "ComposedLens" THEN ComposedLens_compose(self, other)
    ELSE LensLike_compose(self, other)

(***************************************************************************)
(* Objects.  Object(optic, name) is the optic as the object a call holds   *)
(* under `name`; the elements of a ComposedLens are the objects of its     *)
(* list.  identity(obj) is the object an expression evaluated to: one the  *)
(* call was given, or a new one.                                           *)
(***************************************************************************)
Object(optic, name) ==
    IF optic.type = "ComposedLens"
    THEN [type |-> "ComposedLens",
          lenses |-> [i \in DOMAIN optic.lenses |->
                         optic.lenses[i] @@ [at |-> name \o ".lenses"]],
          at |-> name]
    ELSE optic @@ [at |-> name]

identity(obj) == IF "at" \in DOMAIN obj THEN obj.at ELSE "new"

\* compose appending other to the list of self in place.
compose_call_in_place(self, other) ==
    LET r == compose(self, other)
        returned == compose(Object(self, "self"), Object(other, "other"))
    IN  [err |-> r.err, val |-> r.val, calls |-> r.calls,
         is |-> IF r.err = NoErr THEN identity(returned.val) ELSE "none",
         self |-> IF self.type = "ComposedLens"
                  THEN [self EXCEPT !.lenses = @ \o <<other>>]
                  ELSE self,
         other |-> other]

\* A call self.compose(other): what it returns or raises, the object it
\* returns (is), and the operands as the call leaves them.  compose and
\* ComposedLens.__init__ assign to no attribute of self or other:
\* self.lenses + [other] and list(...) are new lists.
compose_call(self, other) ==
    LET r == compose(self, other)
        returned == compose(Object(self, "self"), Object(other, "other"))
    IN  [err |-> r.err, val |-> r.val, calls |-> r.calls,
         is |-> IF r.err = NoErr THEN identity(returned.val) ELSE "none",
         self |-> self,
         other |-> other]

\* LensLike.from_
LensLike_from_(self) ==
    IF ~_is_kind(self, "Isomorphism")
    THEN Raised(TypeError("Must be an instance of Isomorphism to .from_()"), <<>>)
    ELSE Raised(NotImplementedError("Optic has no implementation of .from_()"), <<>>)

\* Isomorphism.from_, inherited by Equality, TrivialIso and ErrorIso; an
\* ErrorIso has no attribute forwards or backwards.
Isomorphism_from_(self) ==
    IF self.type = "ErrorIso"
    THEN Raised(AttributeError("'ErrorIso' object has no attribute 'backwards'"), <<>>)
    ELSE Return(Isomorphism(backwards(self), forwards(self)), <<>>)

\* LensLike.re
LensLike_re(self) ==
    IF ~_is_kind(self, "Review")
    THEN Raised(TypeError("Must be an instance of Review to .re()"), <<>>)
    ELSE Raised(NotImplementedError("Optic has no implementation of .re()"), <<>>)

\* Review.re, inherited by Prism.
Review_re(self) == Return(Getter(self.pack), <<>>)

\* Isomorphism.re, inherited by Equality, TrivialIso and ErrorIso.
Isomorphism_re(self) ==
    IF self.type = "ErrorIso"
    THEN Raised(AttributeError("'ErrorIso' object has no attribute 'backwards'"), <<>>)
    ELSE Return(Isomorphism(backwards(self), forwards(self)), <<>>)

\* from_ and re of a leaf optic, by its class.
leaf_from_(self) ==
    IF self.type \in {"Isomorphism", "Equality", "TrivialIso", "ErrorIso"}
    THEN Isomorphism_from_(self)
    ELSE LensLike_from_(self)

leaf_re(self) ==
    IF self.type \in {"Isomorphism", "Equality", "TrivialIso", "ErrorIso"}
    THEN Isomorphism_re(self)
    ELSE IF self.type \in {"Review", "Prism"} THEN Review_re(self)
    ELSE LensLike_re(self)

\* A list comprehension [m(l) for l in lenses] over results: the first
\* exception raised ends it.
FirstRaised(rs) ==
    LET bad == {i \in DOMAIN rs : rs[i].err # NoErr}
    IN  IF bad = {} THEN 0 ELSE CHOOSE i \in bad : \A j \in bad : i <= j

Reversed(s) == [i \in DOMAIN s |-> s[Len(s) + 1 - i]]

\* ComposedLens.from_ keeping the order of the elements.
ComposedLens_from_in_order(self) ==
    LET rs == [i \in DOMAIN self.lenses |-> leaf_from_(self.lenses[i])]
    IN  IF FirstRaised(rs) # 0 THEN rs[FirstRaised(rs)]
        ELSE Return(ComposedLens([i \in DOMAIN rs |-> rs[i].val]), <<>>)

\* ComposedLens.from_
ComposedLens_from_(self) ==
    LET rs == [i \in DOMAIN self.lenses |-> leaf_from_(Reversed(self.lenses)[i])]
    IN  IF FirstRaised(rs) # 0 THEN rs[FirstRaised(rs)]
        ELSE Return(ComposedLens([i \in DOMAIN rs |-> rs[i].val]), <<>>)

\* ComposedLens.re
ComposedLens_re(self) ==
    LET rs == [i \in DOMAIN self.lenses |-> leaf_re(self.lenses[i])]
    IN  IF FirstRaised(rs) # 0 THEN rs[FirstRaised(rs)]
        ELSE Return(ComposedLens([i \in DOMAIN rs |-> rs[i].val]), <<>>)

from_(self) ==
    IF self.type = "ComposedLens" THEN ComposedLens_from_(self) ELSE leaf_from_(self)

re(self) ==
    IF self.type = "ComposedLens" THEN ComposedLens_re(self) ELSE leaf_re(self)

(***************************************************************************)
(* The client.                                                             *)
(***************************************************************************)
VARIABLES cat, acc, last

vars == <<cat, acc, last>>

(***************************************************************************)
(* The leaf optics a client constructs; cat names the client.  Three are    *)
(* checked:                                                                *)
(* one holding an optic of every kind, one holding getters, lenses and a   *)
(* prism, and one holding reviews, prisms and isomorphisms.                *)
(***************************************************************************)
KindLeaves ==
    { Fold, Setter, Traversal,
      Getter("Half"),
      Lens("Half", "HighPut"),
      Review("Dec"),
      Prism("EvenUnpack", "Twice"),
      Isomorphism("Inc", "Dec"),
      Equality("Neg", "Neg"),
      TrivialIso }

LensLeaves ==
    { Getter("Half"), Getter("Inc"),
      Lens("Half", "HighPut"), Lens("LowGet", "LowPut"),
      Lens("Inc", "AddPut"), Lens("Inc", "DecPut"),
      Prism("EvenUnpack", "Twice"),
      Isomorphism("Inc", "Dec"),
      ErrorIso("Exception", "None"), ErrorIso("ValueError", "applied to {}"),
      TrivialIso }

IsoLeaves ==
    { Review("Dec"), Review("Twice"),
      Prism("EvenUnpack", "Twice"), Prism("PosUnpack", "Inc"),
      Isomorphism("Inc", "Dec"), Isomorphism("Half", "Twice"),
      Equality("Neg", "Neg"),
      ErrorIso("Exception", "None"),
      TrivialIso }

Leaves ==
    CASE cat = "kinds" -> KindLeaves
      [] cat = "lenses" -> LensLeaves
      [] cat = "isos" -> IsoLeaves

\* The elements of an optic, as composition flattens it.
Elements(optic) == _filter_lenses(<<optic>>)

NoOptic == [type |-> "NoOptic"]

Call(op, self, other, state, fn, value, ret) ==
    [op |-> op, self |-> self, other |-> other, state |-> state, fn |-> fn,
     value |-> value, ret |-> ret]

NoCall == Call("none", NoOptic, NoOptic, 0, "Ident", 0, Return(<<>>, <<>>))

InitClient ==
    /\ acc = TrivialIso
    /\ last = NoCall

\* The client makes its next call once it has consumed the result of an
\* evaluation (Discard).
Evaluated == last.op \in {"view", "to_list_of", "over", "set"}

\* acc = acc.compose(l): acc keeps its value when compose raises.
Compose(l) ==
    /\ ~Evaluated
    /\ Len(Elements(acc)) + Len(Elements(l)) <= MaxLen
    /\ LET r == compose_call(acc, l)
       IN  /\ last' = Call("compose", acc, l, 0, "Ident", 0, r)
           /\ acc' = IF r.err = NoErr THEN r.val ELSE acc
           /\ UNCHANGED cat

\* acc = l.compose(acc)
ComposeLeft(l) ==
    /\ ~Evaluated
    /\ Len(Elements(acc)) + Len(Elements(l)) <= MaxLen
    /\ LET r == compose_call(l, acc)
       IN  /\ last' = Call("compose", l, acc, 0, "Ident", 0, r)
           /\ acc' = IF r.err = NoErr THEN r.val ELSE acc
           /\ UNCHANGED cat

\* acc = acc.from_()
From ==
    LET r == from_(acc)
    IN  /\ ~Evaluated
        /\ last' = Call("from_", acc, NoOptic, 0, "Ident", 0, r)
        /\ acc' = IF r.err = NoErr THEN r.val ELSE acc
        /\ UNCHANGED cat

\* acc = acc.re()
Re ==
    LET r == re(acc)
    IN  /\ ~Evaluated
        /\ last' = Call("re", acc, NoOptic, 0, "Ident", 0, r)
        /\ acc' = IF r.err = NoErr THEN r.val ELSE acc
        /\ UNCHANGED cat

View(s) ==
    /\ ~Evaluated
    /\ last' = Call("view", acc, NoOptic, s, "Ident", 0, view(acc, s))
    /\ UNCHANGED <<cat, acc>>

ToListOf(s) ==
    /\ ~Evaluated
    /\ last' = Call("to_list_of", acc, NoOptic, s, "Ident", 0, to_list_of(acc, s))
    /\ UNCHANGED <<cat, acc>>

Over(s, fn) ==
    /\ ~Evaluated
    /\ last' = Call("over", acc, NoOptic, s, fn, 0, over(acc, s, fn))
    /\ UNCHANGED <<cat, acc>>

Set(s, v) ==
    /\ ~Evaluated
    /\ last' = Call("set", acc, NoOptic, s, "Ident", v, set(acc, s, v))
    /\ UNCHANGED <<cat, acc>>

Kind ==
    /\ ~Evaluated
    /\ last' = Call("kind", acc, NoOptic, 0, "Ident", 0, Return(kind(acc), <<>>))
    /\ UNCHANGED <<cat, acc>>

Discard ==
    /\ Evaluated
    /\ last' = NoCall
    /\ UNCHANGED <<cat, acc>>

Next ==
    \/ \E l \in Leaves : Compose(l)
    \/ \E l \in Leaves : ComposeLeft(l)
    \/ From
    \/ Re
    \/ \E s \in Val : View(s)
    \/ \E s \in Val : ToListOf(s)
    \/ \E s \in Val, fn \in Fns : Over(s, fn)
    \/ \E s \in Val, v \in Val : Set(s, v)
    \/ Kind
    \/ Discard

Init == cat = "kinds" /\ InitClient
InitLens == cat = "lenses" /\ InitClient
InitIso == cat = "isos" /\ InitClient

Spec == Init /\ [][Next]_vars
SpecLens == InitLens /\ [][Next]_vars
SpecIso == InitIso /\ [][Next]_vars

(***************************************************************************)
(* The user-facing wrappers: ui.Lens, which holds a state and an optic     *)
(* and is unbound while its state is None, and userlens.UserLens, which    *)
(* holds an item and a lens and is unbound while its item is the _unbound  *)
(* singleton.  None and _unbound are values outside Val.                   *)
(***************************************************************************)
None == -1
_unbound == -2

\* ui.Lens.__init__; NoOptic stands for lens=None.
ui_Lens(state, lens) ==
    [class |-> "ui.Lens", state |-> state,
     lens |-> IF lens = NoOptic THEN TrivialIso ELSE lens]

\* ui.Lens._assert_bound and _assert_unbound: the exception raised, or NoErr.
_assert_bound(self, name) ==
    IF self.state = None
    THEN ValueError(name \o " requires a bound lens")
    ELSE NoErr

_assert_unbound(self, name) ==
    IF self.state # None
    THEN ValueError(name \o " requires an unbound lens")
    ELSE NoErr

\* ui.Lens.bind
ui_Lens_bind(self, state) ==
    IF _assert_unbound(self, "Lens.bind") # NoErr
    THEN Raised(_assert_unbound(self, "Lens.bind"), <<>>)
    ELSE Return(ui_Lens(state, self.lens), <<>>)

\* The head of ui.Lens.get, get_all, set and modify:
\*     if state is not None: self = self.bind(state)
\*     self._assert_bound(name)
\* The result holds the rebound self, or the exception raised.
ui_Lens_bound(self, state, name) ==
    LET b == IF state # None THEN ui_Lens_bind(self, state) ELSE Return(self, <<>>)
    IN  IF b.err # NoErr THEN b
        ELSE IF _assert_bound(b.val, name) # NoErr
        THEN Raised(_assert_bound(b.val, name), <<>>)
        ELSE b

\* list[0]
first(r) ==
    IF r.err # NoErr THEN r
    ELSE IF Len(r.val) = 0 THEN Raised(IndexError("list index out of range"), r.calls)
    ELSE Return(r.val[1], r.calls)

ui_Lens_get(self, state) ==
    LET b == ui_Lens_bound(self, state, "Lens.get")
    IN  IF b.err # NoErr THEN b ELSE first(to_list_of(b.val.lens, b.val.state))

ui_Lens_get_all(self, state) ==
    LET b == ui_Lens_bound(self, state, "Lens.get_all")
    IN  IF b.err # NoErr THEN b ELSE to_list_of(b.val.lens, b.val.state)

ui_Lens_set(self, newvalue, state) ==
    LET b == ui_Lens_bound(self, state, "Lens.set")
    IN  IF b.err # NoErr THEN b ELSE set(b.val.lens, b.val.state, newvalue)

ui_Lens_modify(self, fn, state) ==
    LET b == ui_Lens_bound(self, state, "Lens.modify")
    IN  IF b.err # NoErr THEN b ELSE over(b.val.lens, b.val.state, fn)

\* ui.Lens.add_lens, given an optic.
ui_Lens_add_lens(self, other) ==
    LET c == compose(self.lens, other)
    IN  IF c.err # NoErr THEN c ELSE Return(ui_Lens(self.state, c.val), <<>>)

\* UserLens.__init__; NoOptic stands for sublens=None.
UserLens(item, sublens) ==
    [class |-> "UserLens", item |-> IF item = None THEN _unbound ELSE item,
     lens |-> IF sublens = NoOptic THEN TrivialIso ELSE sublens]

\* userlens._valid_item: the item to use, or the exception raised.
_valid_item(selfitem, argitem) ==
    IF selfitem = _unbound /\ argitem = _unbound
    THEN Raised(ValueError("Lens is unbound and no item has been passed"), <<>>)
    ELSE IF selfitem # _unbound /\ argitem # _unbound
    THEN Raised(ValueError("Passed an item to an already bound Lens"), <<>>)
    ELSE IF selfitem # _unbound THEN Return(selfitem, <<>>)
    ELSE Return(argitem, <<>>)

\* UserLens.bind
UserLens_bind(self, item) ==
    IF self.item # _unbound
    THEN Raised(ValueError("Trying to bind an already bound lens"), <<>>)
    ELSE Return(UserLens(item, self.lens), <<>>)

\* UserLens.get, get_all, set and modify; the lens they delegate to gets,
\* lists, sets and modifies the foci of the item.
UserLens_get(self, item) ==
    LET i == _valid_item(self.item, item)
    IN  IF i.err # NoErr THEN i ELSE first(to_list_of(self.lens, i.val))

UserLens_get_all(self, item) ==
    LET i == _valid_item(self.item, item)
    IN  IF i.err # NoErr THEN i ELSE to_list_of(self.lens, i.val)

UserLens_set(self, newvalue, item) ==
    LET i == _valid_item(self.item, item)
    IN  IF i.err # NoErr THEN i ELSE set(self.lens, i.val, newvalue)

UserLens_modify(self, fn, item) ==
    LET i == _valid_item(self.item, item)
    IN  IF i.err # NoErr THEN i ELSE over(self.lens, i.val, fn)

\* UserLens.add_lens
UserLens_add_lens(self, new_lens) ==
    LET c == compose(self.lens, new_lens)
    IN  IF c.err # NoErr THEN c ELSE Return(UserLens(self.item, c.val), <<>>)

\* Method dispatch on the wrapper's class.
Wrapper_bind(self, state) ==
    IF self.class = "ui.Lens" THEN ui_Lens_bind(self, state)
    ELSE UserLens_bind(self, state)

Wrapper_get(self, state) ==
    IF self.class = "ui.Lens" THEN ui_Lens_get(self, state)
    ELSE UserLens_get(self, state)

Wrapper_get_all(self, state) ==
    IF self.class = "ui.Lens" THEN ui_Lens_get_all(self, state)
    ELSE UserLens_get_all(self, state)

Wrapper_set(self, newvalue, state) ==
    IF self.class = "ui.Lens" THEN ui_Lens_set(self, newvalue, state)
    ELSE UserLens_set(self, newvalue, state)

Wrapper_modify(self, fn, state) ==
    IF self.class = "ui.Lens" THEN ui_Lens_modify(self, fn, state)
    ELSE UserLens_modify(self, fn, state)

Wrapper_add_lens(self, other) ==
    IF self.class = "ui.Lens" THEN ui_Lens_add_lens(self, other)
    ELSE UserLens_add_lens(self, other)

\* A call self.bind(state): what it returns or raises, and self as the call
\* leaves it (bind assigns to no attribute of self).
bind_call(self, state) ==
    LET r == Wrapper_bind(self, state)
    IN  [err |-> r.err, val |-> r.val, calls |-> r.calls, self |-> self]

(***************************************************************************)
(* A client of the wrappers: acc is the wrapper it holds, at first an      *)
(* unbound one on the identity optic.  It adds optics to it, binds it, and *)
(* calls get, get_all, set and modify with a state or without one.         *)
(***************************************************************************)
WrapperLeaves == { Lens("Half", "HighPut"), Prism("EvenUnpack", "Twice"), Getter("Inc") }

\* NoState(w) is how a call on w passes no state: the parameter's default.
NoState(w) == IF w.class = "ui.Lens" THEN None ELSE _unbound
Unbound(w) == IF w.class = "ui.Lens" THEN w.state = None ELSE w.item = _unbound

InitWrapper ==
    /\ cat = "wrappers"
    /\ acc \in {ui_Lens(None, NoOptic), UserLens(None, NoOptic)}
    /\ last = NoCall

AddLens(l) ==
    /\ Len(Elements(acc.lens)) + Len(Elements(l)) <= MaxLen
    /\ LET r == Wrapper_add_lens(acc, l)
       IN  /\ last' = Call("add_lens", acc, l, 0, "Ident", 0, r)
           /\ acc' = IF r.err = NoErr THEN r.val ELSE acc
    /\ UNCHANGED cat

Bind(s) ==
    /\ LET r == bind_call(acc, s)
       IN  /\ last' = Call("bind", acc, NoOptic, s, "Ident", 0, r)
           /\ acc' = IF r.err = NoErr THEN r.val ELSE acc
    /\ UNCHANGED cat

Get(s) ==
    /\ last' = Call("get", acc, NoOptic, s, "Ident", 0, Wrapper_get(acc, s))
    /\ UNCHANGED <<cat, acc>>

GetAll(s) ==
    /\ last' = Call("get_all", acc, NoOptic, s, "Ident", 0, Wrapper_get_all(acc, s))
    /\ UNCHANGED <<cat, acc>>

WrapperSet(v, s) ==
    /\ last' = Call("set", acc, NoOptic, s, "Ident", v, Wrapper_set(acc, v, s))
    /\ UNCHANGED <<cat, acc>>

Modify(fn, s) ==
    /\ last' = Call("modify", acc, NoOptic, s, fn, 0, Wrapper_modify(acc, fn, s))
    /\ UNCHANGED <<cat, acc>>

NextWrapper ==
    \/ \E l \in WrapperLeaves : AddLens(l)
    \/ \E s \in Val \cup {None} : Bind(s)
    \/ \E s \in Val \cup {NoState(acc)} : Get(s)
    \/ \E s \in Val \cup {NoState(acc)} : GetAll(s)
    \/ \E v \in Val, s \in Val \cup {NoState(acc)} : WrapperSet(v, s)
    \/ \E fn \in Fns, s \in Val \cup {NoState(acc)} : Modify(fn, s)

SpecWrapper == InitWrapper /\ [][NextWrapper]_vars

(***************************************************************************)
(* The kind lattice as the specification states it: Up(k) is the set of    *)
(* kinds an optic of kind k satisfies.                                     *)
(***************************************************************************)
Kinds == {"Fold", "Setter", "Getter", "Traversal", "Lens", "Review", "Prism",
          "Isomorphism", "Equality"}

Subsumed ==
    { <<"Getter", "Fold">>, <<"Traversal", "Fold">>, <<"Traversal", "Setter">>,
      <<"Lens", "Getter">>, <<"Lens", "Traversal">>, <<"Prism", "Traversal">>,
      <<"Prism", "Review">>, <<"Isomorphism", "Lens">>, <<"Isomorphism", "Prism">>,
      <<"Equality", "Isomorphism">> }

RECURSIVE Up(_)
Up(k) == IF k \notin Kinds THEN {}
         ELSE {k} \cup UNION {Up(p[2]) : p \in {q \in Subsumed : q[1] = k}}

\* The most specific kind both ka and kb satisfy, or None.
Meet(ka, kb) ==
    LET common == Up(ka) \cap Up(kb)
        best == {k \in common : common \subseteq Up(k)}
    IN  IF best = {} THEN "None" ELSE CHOOSE k \in best : TRUE

\* Two results of a public operation are the same outcome.
SameResult(r1, r2) ==
    /\ r1.err = r2.err
    /\ r1.calls = r2.calls
    /\ r1.err = NoErr => r1.val = r2.val

\* Two optics give the same results under view, to_list_of, over and set.
SameEvaluation(a, b) ==
    \A s \in Val :
        /\ SameResult(view(a, s), view(b, s))
        /\ SameResult(to_list_of(a, s), to_list_of(b, s))
        /\ \A fn \in Fns : SameResult(over(a, s, fn), over(b, s, fn))
        /\ \A v \in Val : SameResult(set(a, s, v), set(b, s, v))

\* Two optics behave identically under kind, view, to_list_of, over and set.
SameBehaviour(a, b) == kind(a) = kind(b) /\ SameEvaluation(a, b)

Composed == last.op = "compose"
Succeeded == last.ret.err = NoErr
StructuralError == last.ret.err = RuntimeError("Optic has no valid type")

IsIdentity(optic) == optic.type = "TrivialIso"

C4_IdentityLaws ==
    /\ (Composed /\ IsIdentity(last.other)) =>
           /\ Succeeded
           /\ SameBehaviour(last.ret.val, last.self)
           /\ last.self.type # "ComposedLens" => last.ret.val = last.self
    /\ (Composed /\ IsIdentity(last.self)) =>
           /\ Succeeded
           /\ SameBehaviour(last.ret.val, last.other)
           /\ last.other.type # "ComposedLens" => last.ret.val = last.other

\* A composition of a lens and a prism was composed with the identity optic.
C4_Witness ==
    /\ Composed /\ Succeeded
    /\ IsIdentity(last.other)
    /\ last.self.type = "ComposedLens"
    /\ kind(last.self) = "Traversal"
    /\ acc = last.self

(***************************************************************************)
(* C5: for the operands A, B of a compose call and every leaf C,           *)
(* compose(compose(A, B), C) and compose(A, compose(B, C)) both raise the  *)
(* structural kind error, or both return optics with the same element      *)
(* sequence (the elements of A, B and C in order), the same kind and the   *)
(* same results of view, to_list_of, over and set on every state.          *)
(***************************************************************************)
ThenCompose(r, other) == IF r.err # NoErr THEN r ELSE compose(r.val, other)
ComposeWith(self, r) == IF r.err # NoErr THEN r ELSE compose(self, r.val)

LeftNested(a, b, c) == ThenCompose(compose(a, b), c)
RightNested(a, b, c) == ComposeWith(a, compose(b, c))

IsStructuralError(r) == r.err = RuntimeError("Optic has no valid type")

Associative(a, b, c) ==
    LET l == LeftNested(a, b, c)
        r == RightNested(a, b, c)
    IN  \/ IsStructuralError(l) /\ IsStructuralError(r)
        \/ /\ l.err = NoErr /\ r.err = NoErr
           /\ Elements(l.val) = Elements(r.val)
           /\ Elements(l.val) = Elements(a) \o Elements(b) \o Elements(c)
           /\ SameBehaviour(l.val, r.val)

C5_Associativity ==
    Composed => \A c \in Leaves : Associative(last.self, last.other, c)

\* A lens was composed with a prism, and a third optic extends both nestings
\* to three elements.
C5_Witness ==
    /\ Composed /\ Succeeded
    /\ last.self.type = "Lens" /\ last.other.type = "Prism"
    /\ \E c \in Leaves :
          /\ LeftNested(last.self, last.other, c).err = NoErr
          /\ Len(Elements(RightNested(last.self, last.other, c).val)) = 3


(***************************************************************************)
(* C2, as stated: for A and B built with getter, lens, prism or            *)
(* isomorphism, to_list_of(compose(A, B), s) is the concatenation of       *)
(* to_list_of(B, a) over the foci a of to_list_of(A, s), in order.         *)
(***************************************************************************)
RECURSIVE Concat(_)
Concat(lists) == IF Len(lists) = 0 THEN <<>> ELSE Head(lists) \o Concat(Tail(lists))

IsPairOf(optic, types) ==
    /\ optic.type = "ComposedLens"
    /\ Len(optic.lenses) = 2
    /\ optic.lenses[1].type \in types
    /\ optic.lenses[2].type \in types

FociFedThrough(a, b, s) ==
    LET foci == to_list_of(a, s).val
    IN  Concat([i \in DOMAIN foci |-> to_list_of(b, foci[i]).val])

C2_FociFeedNextState ==
    (last.op = "to_list_of"
        /\ IsPairOf(acc, {"Getter", "Lens", "Prism", "Isomorphism"})) =>
        /\ Succeeded
        /\ last.ret.val = FociFedThrough(acc.lenses[1], acc.lenses[2], last.state)

(***************************************************************************)
(* C3, as stated: view and to_list_of on an optic that is not a Fold, over *)
(* and set on one that is not a Setter, from_ on one that is not an        *)
(* Isomorphism and re on one that is not a Review raise TypeError, with no *)
(* user function invoked and no result.                                    *)
(***************************************************************************)
Satisfies(optic, k) == k \in Up(kind(optic))

Rejected ==
    /\ last.ret.err.name = "TypeError"
    /\ last.ret.calls = <<>>
    /\ acc = last.self

C3_KindCheckedFirst ==
    /\ (last.op \in {"view", "to_list_of"} /\ ~Satisfies(last.self, "Fold")) => Rejected
    /\ (last.op \in {"over", "set"} /\ ~Satisfies(last.self, "Setter")) => Rejected
    /\ (last.op = "from_" /\ ~Satisfies(last.self, "Isomorphism")) => Rejected
    /\ (last.op = "re" /\ ~Satisfies(last.self, "Review")) => Rejected

(***************************************************************************)
(* C6: for a Prism(unpack, pack) and a state s: if unpack(s) is Nothing,   *)
(* to_list_of is [] and over and set return s, invoking neither fn nor     *)
(* pack; if unpack(s) is Just(a), to_list_of is [a], over is pack(fn(a))   *)
(* and set is pack(v).  When the prism is the outer element of a           *)
(* composition that is a Setter and unpack(s) is Nothing, over returns s   *)
(* and invokes only the prism's unpack.                                    *)
(***************************************************************************)
Invoked(name) == \E i \in DOMAIN last.ret.calls : last.ret.calls[i] = name

PrismLaw(prism, s) ==
    LET result == Fn(prism.unpack)[s]
        pack == Fn(prism.pack)
    IN  IF Len(result) = 0
        THEN /\ last.op = "to_list_of" => last.ret.val = <<>>
             /\ last.op \in {"over", "set"} =>
                   last.ret.val = s /\ ~Invoked("fn") /\ ~Invoked("pack")
        ELSE /\ last.op = "to_list_of" => last.ret.val = <<result[1]>>
             /\ last.op = "over" => last.ret.val = pack[Fn(last.fn)[result[1]]]
             /\ last.op = "set" => last.ret.val = pack[last.value]

C6_PrismAbsence ==
    /\ (last.op \in {"to_list_of", "over", "set"} /\ acc.type = "Prism") =>
           Succeeded /\ PrismLaw(acc, last.state)
    /\ (last.op = "over" /\ acc.type = "ComposedLens" /\ acc.lenses[1].type = "Prism"
          /\ Satisfies(acc, "Setter")
          /\ Len(Fn(acc.lenses[1].unpack)[last.state]) = 0) =>
           /\ Succeeded
           /\ last.ret.val = last.state
           /\ last.ret.calls = <<"unpack">>

\* over on a prism composed with a lens, on a state the prism does not unpack.
C6_Witness ==
    /\ last.op = "over" /\ Succeeded
    /\ IsPairOf(acc, {"Prism", "Lens"})
    /\ acc.lenses[1].type = "Prism" /\ acc.lenses[2].type = "Lens"
    /\ Len(Fn(acc.lenses[1].unpack)[last.state]) = 0
    /\ last.fn = "Inc"
    /\ last.ret.val = last.state

(***************************************************************************)
(* C7: for a Lens(get, put): to_list_of(lens, s) = [get(s)], view(lens, s) *)
(* = get(s) and over(lens, s, fn) = put(s, fn(get(s))); and for two lenses *)
(* over(compose(L1, L2), s, fn) =                                          *)
(* L1.put(s, L2.put(L1.get(s), fn(L2.get(L1.get(s))))).                    *)
(***************************************************************************)
get(lens, s) == Fn(lens.getter)[s]
put(lens, s, v) == Fn(lens.setter)[<<s, v>>]

C7_LensContract ==
    /\ (Evaluated /\ acc.type = "Lens") =>
          /\ Succeeded
          /\ last.op = "to_list_of" => last.ret.val = <<get(acc, last.state)>>
          /\ last.op = "view" => last.ret.val = get(acc, last.state)
          /\ last.op = "over" =>
                last.ret.val = put(acc, last.state, Fn(last.fn)[get(acc, last.state)])
    /\ (last.op = "over" /\ IsPairOf(acc, {"Lens"})) =>
          LET l1 == acc.lenses[1]
              l2 == acc.lenses[2]
              s == last.state
              inner == get(l1, s)
          IN  /\ Succeeded
              /\ last.ret.val =
                    put(l1, s, put(l2, inner, Fn(last.fn)[get(l2, inner)]))

\* over on a composition of two different lenses that changes the state.
C7_Witness ==
    /\ last.op = "over" /\ Succeeded
    /\ IsPairOf(acc, {"Lens"})
    /\ acc.lenses[1] # acc.lenses[2]
    /\ last.ret.val # last.state

(***************************************************************************)
(* C8: the lens laws are stated over a set S of states and a set A of      *)
(* foci: get maps S into A, put maps S x A into S, get(put(s, v)) = v and  *)
(* put(s, get(s)) = s.  If L1 satisfies them over S and A, and L2 over A   *)
(* and B, then for C = L1 (over S, A) and C = compose(L1, L2) (over S, B): *)
(* view(C, set(C, s, v)) = v and set(C, s, view(C, s)) = s.                *)
(***************************************************************************)
Lawful(lens, S, A) ==
    \A s \in S :
        /\ get(lens, s) \in A
        /\ put(lens, s, get(lens, s)) = s
        /\ \A v \in A : put(lens, s, v) \in S /\ get(lens, put(lens, s, v)) = v

\* The last call was a set or a view of acc on a state of S (with a value of
\* A), and the round trip through the other operation holds.
RoundTrip(S, A) ==
    /\ (last.op = "set" /\ last.state \in S /\ last.value \in A) =>
          /\ Succeeded
          /\ SameResult(view(acc, last.ret.val), Return(last.value, view(acc, last.ret.val).calls))
    /\ (last.op = "view" /\ last.state \in S) =>
          /\ Succeeded
          /\ LET back == set(acc, last.state, last.ret.val)
              IN  back.err = NoErr /\ back.val = last.state

C8_LensRoundTrip ==
    /\ (last.op \in {"set", "view"} /\ acc.type = "Lens") =>
          \A S \in SUBSET Val : \A A \in SUBSET Val :
              Lawful(acc, S, A) => RoundTrip(S, A)
    /\ (last.op \in {"set", "view"} /\ IsPairOf(acc, {"Lens"})) =>
          \A S \in SUBSET Val : \A A \in SUBSET Val :
              Lawful(acc.lenses[1], S, A) =>
                  \A B \in SUBSET Val :
                      Lawful(acc.lenses[2], A, B) => RoundTrip(S, B)

\* set on a composition of two lawful lenses, with value other than the focus.
C8_Witness ==
    /\ last.op = "set" /\ Succeeded
    /\ IsPairOf(acc, {"Lens"})
    /\ acc.lenses[1] # acc.lenses[2]
    /\ Lawful(acc.lenses[1], Val, {0, 1})
    /\ Lawful(acc.lenses[2], {0, 1}, {0, 1})
    /\ last.value \in {0, 1}
    /\ view(acc, last.state).val # last.value
    /\ view(acc, last.ret.val).val = last.value

(***************************************************************************)
(* C9, as stated: for A and B each a Review, a Prism or an Isomorphism and *)
(* every focus x, view(re(compose(A, B)), x) = A.pack(B.pack(x)), where    *)
(* backwards is the pack of an Isomorphism; and for a single Review(pack), *)
(* view(re(R), x) = pack(x).                                               *)
(***************************************************************************)
packOf(optic) ==
    IF optic.type = "Isomorphism" THEN Fn(optic.backwards) ELSE Fn(optic.pack)

Constructs(optic, x, state) ==
    LET r == view(optic, x)
    IN  r.err = NoErr /\ r.val = state

C9_ConstructPacksInsideOut ==
    /\ (last.op = "re" /\ last.self.type = "Review") =>
          /\ Succeeded
          /\ \A x \in Val : Constructs(last.ret.val, x, packOf(last.self)[x])
    /\ (last.op = "re" /\ IsPairOf(last.self, {"Review", "Prism", "Isomorphism"})) =>
          /\ Succeeded
          /\ \A x \in Val :
                Constructs(last.ret.val, x,
                           packOf(last.self.lenses[1])[packOf(last.self.lenses[2])[x]])

(***************************************************************************)
(* C10, as stated: for every optic I that is an Isomorphism (by kind),     *)
(* from_(from_(I)) gives the same results as I under view, to_list_of,     *)
(* over and set, for every state, value and function, and is still an      *)
(* Isomorphism.                                                            *)
(***************************************************************************)
C10_FlipInvolution ==
    (last.op = "from_" /\ Satisfies(last.self, "Isomorphism")) =>
        /\ Succeeded
        /\ LET back == from_(last.ret.val)
            IN  /\ back.err = NoErr
                /\ Satisfies(back.val, "Isomorphism")
                /\ SameEvaluation(back.val, last.self)

(***************************************************************************)
(* C11: set(optic, state, value) gives what over(optic, state, fn) gives   *)
(* with fn the constant function returning value: the same value, or the   *)
(* same exception; on an optic that is not a Setter both raise TypeError.  *)
(* The user functions invoked are the same, but for fn itself, which only  *)
(* over invokes.                                                           *)
(***************************************************************************)
WithoutFn(calls) == SelectSeq(calls, LAMBDA c : c # "fn")

C11_SetIsOverConstant ==
    last.op = "set" =>
        LET o == over(last.self, last.state, ConstantFn(last.value))
        IN  /\ Satisfies(last.self, "Setter") =>
                  /\ last.ret.err = o.err
                  /\ last.ret.err = NoErr => last.ret.val = o.val
                  /\ last.ret.calls = WithoutFn(o.calls)
            /\ ~Satisfies(last.self, "Setter") =>
                  /\ last.ret.err.name = "TypeError"
                  /\ o.err.name = "TypeError"

\* set on a composition of two Setters that changes the state.
C11_Witness ==
    /\ last.op = "set" /\ Succeeded
    /\ acc.type = "ComposedLens" /\ Len(acc.lenses) = 2
    /\ Satisfies(acc, "Setter")
    /\ last.ret.val # last.state
    /\ over(acc, last.state, ConstantFn(last.value)).val = last.ret.val
    /\ Len(over(acc, last.state, ConstantFn(last.value)).calls) > Len(last.ret.calls)

(***************************************************************************)
(* C12, as stated: compose(A, B) leaves A and B as they were, whether it   *)
(* returns or raises, and the optic it returns is a new object, distinct   *)
(* from A and from B.                                                      *)
(***************************************************************************)
OperandsUnchanged ==
    /\ last.ret.self = last.self
    /\ last.ret.other = last.other

C12_AlwaysNewObject ==
    Composed =>
        /\ OperandsUnchanged
        /\ Succeeded => last.ret.is = "new"

(***************************************************************************)
(* C12, amended: compose(A, B) leaves A and B as they were, whether it     *)
(* returns or raises.  It returns a new object unless exactly one element  *)
(* is left once identities are dropped and compositions are flattened;     *)
(* then it returns that element itself, which is A or B when that operand  *)
(* is the element.                                                         *)
(***************************************************************************)
ElementCount(self, other) == Len(Elements(self)) + Len(Elements(other))

C12_NewUnlessOneElement ==
    Composed =>
        /\ OperandsUnchanged
        /\ Succeeded =>
              IF ElementCount(last.self, last.other) = 1
              THEN /\ last.ret.is # "new"
                   /\ last.ret.is = "self" <=> Elements(last.self) = <<last.self>>
                   /\ last.ret.is = "other" <=> Elements(last.other) = <<last.other>>
              ELSE last.ret.is = "new"

\* The identity optic composed with a lens returned the lens itself.
C12_Witness ==
    /\ Composed /\ Succeeded
    /\ last.self.type = "TrivialIso"
    /\ last.other.type = "Lens"
    /\ last.ret.is = "other"
    /\ last.ret.val = last.other

(***************************************************************************)
(* C13, as stated: view, to_list_of, over and set on an ErrorIso raise its *)
(* exception, unmodified when it has no message and otherwise made from    *)
(* the message formatted with the state; and on compose(A, ErrorIso) they  *)
(* do the same, the state of the ErrorIso being the focus of A, on every   *)
(* state where A has a focus.  (The operation is one the optic's kind      *)
(* allows; otherwise TypeError is raised first.)                           *)
(***************************************************************************)
Allowed(op, optic) ==
    IF op \in {"view", "to_list_of"} THEN Satisfies(optic, "Fold")
    ELSE Satisfies(optic, "Setter")

ErrorOf(errorIso, state) ==
    IF errorIso.message = "None"
    THEN Exception(errorIso.exception, "", -1)
    ELSE Exception(errorIso.exception, errorIso.message, state)

HasFocus(optic, s) ==
    LET foci == to_list_of(optic, s)
    IN  foci.err = NoErr /\ Len(foci.val) > 0

C13_ErrorIsoRaises ==
    /\ (Evaluated /\ acc.type = "ErrorIso") => last.ret.err = ErrorOf(acc, last.state)
    /\ (Evaluated /\ acc.type = "ComposedLens" /\ Len(acc.lenses) = 2
          /\ acc.lenses[2].type = "ErrorIso"
          /\ Allowed(last.op, acc)
          /\ HasFocus(acc.lenses[1], last.state)) =>
           last.ret.err = ErrorOf(acc.lenses[2], to_list_of(acc.lenses[1], last.state).val[1])

(***************************************************************************)
(* C14, as stated: after L1 = unbound.bind(s1), for every state s1 and s2: *)
(* L1.bind(s2) raises ValueError, L1 carries s1 and the optic of the       *)
(* unbound wrapper, and the unbound wrapper is as it was; get, get_all,    *)
(* set and modify raise ValueError when passed a state on a bound wrapper, *)
(* and when passed none on an unbound one.                                 *)
(***************************************************************************)
Terminals == {"get", "get_all", "set", "modify"}
ValueErrorRaised(r) == r.err.name = "ValueError"

RefusesState(w, s) ==
    /\ ValueErrorRaised(Wrapper_bind(w, s))
    /\ ValueErrorRaised(Wrapper_get(w, s))
    /\ ValueErrorRaised(Wrapper_get_all(w, s))
    /\ \A v \in Val : ValueErrorRaised(Wrapper_set(w, v, s))
    /\ \A fn \in Fns : ValueErrorRaised(Wrapper_modify(w, fn, s))

Carries(w, s) == IF w.class = "ui.Lens" THEN w.state = s ELSE w.item = s

C14_BindOnce ==
    /\ (last.op = "bind" /\ Unbound(last.self)) =>
          /\ Succeeded
          /\ Carries(last.ret.val, last.state)
          /\ last.ret.val.lens = last.self.lens
          /\ last.ret.self = last.self
          /\ \A s2 \in Val : RefusesState(last.ret.val, s2)
    /\ (last.op = "bind" /\ ~Unbound(last.self)) =>
          ValueErrorRaised(last.ret) /\ acc = last.self
    /\ (last.op \in Terminals /\ ~Unbound(last.self)
          /\ last.state # NoState(last.self)) => ValueErrorRaised(last.ret)
    /\ (last.op \in Terminals /\ Unbound(last.self)
          /\ last.state = NoState(last.self)) => ValueErrorRaised(last.ret)

(***************************************************************************)
(* C15: for isomorphisms I1 and I2, F = from_(compose(I1, I2)) is the      *)
(* reversed composition of the flipped elements: for every c and s,        *)
(* view(F, c) = I1.backwards(I2.backwards(c)) and                          *)
(* set(F, c, s) = I2.forwards(I1.forwards(s)); and if forwards and         *)
(* backwards of each are mutually inverse, view(F, view(C, s)) = s for     *)
(* C = compose(I1, I2).                                                    *)
(***************************************************************************)
Isos == {"Isomorphism", "Equality"}
fwd(iso) == Fn(forwards(iso))
bwd(iso) == Fn(backwards(iso))
Inverse(iso) == \A v \in Val : bwd(iso)[fwd(iso)[v]] = v /\ fwd(iso)[bwd(iso)[v]] = v
Gives(r, value) == r.err = NoErr /\ r.val = value

C15_FlipReverses ==
    (last.op = "from_" /\ IsPairOf(last.self, Isos)) =>
        LET I1 == last.self.lenses[1]
            I2 == last.self.lenses[2]
            F == last.ret.val
        IN  /\ Succeeded
            /\ \A c \in Val : Gives(view(F, c), bwd(I1)[bwd(I2)[c]])
            /\ \A c \in Val, s \in Val : Gives(set(F, c, s), fwd(I2)[fwd(I1)[s]])
            /\ (Inverse(I1) /\ Inverse(I2)) =>
                  \A s \in Val : Gives(view(F, view(last.self, s).val), s)

\* A flipped composition of two mutually inverse isomorphisms whose order
\* matters.
C15_Witness ==
    /\ last.op = "from_" /\ Succeeded
    /\ IsPairOf(last.self, Isos)
    /\ Inverse(last.self.lenses[1]) /\ Inverse(last.self.lenses[2])
    /\ \E c \in Val :
          /\ bwd(last.self.lenses[1])[bwd(last.self.lenses[2])[c]]
               # bwd(last.self.lenses[2])[bwd(last.self.lenses[1])[c]]
          /\ view(acc, c).val = bwd(last.self.lenses[1])[bwd(last.self.lenses[2])[c]]

Flat(optic) ==
    optic.type = "ComposedLens" =>
        /\ Len(optic.lenses) >= 2
        /\ \A i \in DOMAIN optic.lenses :
              optic.lenses[i].type \notin {"TrivialIso", "ComposedLens"}

C17_Flattened ==
    /\ Flat(acc)
    /\ kind(acc) # "None"
    /\ (Composed /\ Succeeded) =>
          LET elements == Elements(last.self) \o Elements(last.other)
          IN  /\ Len(elements) = 0 => last.ret.val = TrivialIso
              /\ Len(elements) = 1 => last.ret.val = elements[1]
              /\ Len(elements) >= 2 =>
                    last.ret.val = [type |-> "ComposedLens", lenses |-> elements]

\* re of a composition gave a composition of as many elements, which was
\* then composed with an identity and came back as it was.
C17_Witness ==
    /\ Composed /\ Succeeded
    /\ last.other.type = "TrivialIso"
    /\ last.self.type = "ComposedLens"
    /\ \A i \in DOMAIN last.self.lenses : last.self.lenses[i].type = "Getter"
    /\ acc = last.self

(***************************************************************************)
(* C18: kind returns the most specific kind the optic is: Getter, Lens,    *)
(* Review, Prism and Isomorphism for the optics of those classes, and      *)
(* Isomorphism for the identity; and an optic of kind K is of K and of     *)
(* every kind that subsumes K, and of no kind more specific than K.        *)
(***************************************************************************)
MoreSpecific(k, K) == k # K /\ K \in Up(k)

C18_KindMostSpecific ==
    last.op = "kind" =>
        LET K == last.ret.val
        IN  /\ K \in Kinds
            /\ last.self.type \in {"Getter", "Lens", "Review", "Prism", "Isomorphism"} =>
                  K = last.self.type
            /\ last.self.type = "TrivialIso" => K = "Isomorphism"
            /\ \A k \in Up(K) : _is_kind(last.self, k)
            /\ \A k \in Kinds : MoreSpecific(k, K) => ~_is_kind(last.self, k)

\* kind of a lens composed with a prism: Traversal, the fifth kind tested.
C18_Witness ==
    /\ last.op = "kind"
    /\ last.self.type = "ComposedLens"
    /\ \E i \in DOMAIN last.self.lenses : last.self.lenses[i].type = "Lens"
    /\ \E i \in DOMAIN last.self.lenses : last.self.lenses[i].type = "Prism"
    /\ last.ret.val = "Traversal"

====
